---- MODULE Spec2Model ----
(***************************************************************************)
(* Odin firmware intelligence: the analysis pipeline (analyze_firmware),   *)
(* the status ledger (update_project_status), the risk aggregator          *)
(* (_calculate_risk_level) and the WebSocket progress broadcaster          *)
(* (ConnectionManager).                                                    *)
(*                                                                         *)
(* The store is the committed content of the database.  A run of           *)
(* analyze_firmware owns one session: rows it adds are pending in that     *)
(* session until the session commits.  update_project_status opens its own *)
(* short session and commits the status at once; the model takes that      *)
(* short transaction to succeed whenever the project row exists.           *)
(***************************************************************************)
EXTENDS Integers, Sequences, FiniteSets, TLC

\* ------------------------------------------------------------- bounds
MaxRuns == 2        \* task slots of analyze_firmware for the project
MaxFindings == 3    \* rows one pattern-scanner run may return
MaxCves == 2        \* rows one CVE-matcher run may return
MaxOsint == 1       \* rows one OSINT run may return
MaxPublish == 2     \* calls of broadcast_status_update by the environment
MaxCount == 3       \* per-severity count of the aggregator's inputs

RunIds == 1..MaxRuns
TheProject == "p1"
ProjectIds == {"p1", "p2"}
WebSockets == {"ws1", "ws2", "ws3"}

\* ------------------------------------------------------------- enums
ProjectStatus ==
    {"pending", "uploading", "extracting", "analyzing", "osint", "completed", "failed"}

RiskLevel == {"low", "medium", "high", "critical"}

\* ------------------------------------------------------------- rows
\* A collection of result rows is kept by what the pipeline reads of it:
\* the number of rows at each severity.
EmptyRows == [s \in RiskLevel |-> 0]

AddRows(a, b) == [s \in RiskLevel |-> a[s] + b[s]]

RowCount(a) == a["low"] + a["medium"] + a["high"] + a["critical"]

RowSets(n) == {b \in [RiskLevel -> 0..n] : RowCount(b) <= n}

VARIABLES
    projects,          \* store: projects table, id -> row
    findings,          \* store: findings rows of TheProject, by producing run
    cve_findings,      \* store: cve_findings rows of TheProject, by producing run
    osint_results,     \* store: number of osint_results rows, by producing run
    firmware,          \* the uploaded file and the environment of its analysis
    upload,            \* the upload request: "none", "created", "enqueued"
    task,              \* the analyze_firmware invocations, by run
    status_calls,      \* every status write of update_project_status, in order
    active_connections,\* ConnectionManager.active_connections: id -> list
    ws,                \* the WebSocket connections: state and project
    received,          \* what each WebSocket's client was sent
    clock,             \* number of broadcasts made (the event loop's time)
    last_publish,      \* the last call of send_project_update
    pruned,            \* the connections a failed delivery removed
    loop,              \* the event loop of the process that runs the task
    agg,               \* inputs and result of one _calculate_risk_level call
    osint,             \* one OSINTAnalyzer: its clock, its limiter, its requests
    conf,              \* inputs and result of one _calculate_confidence call
    cmp,               \* inputs and result of one _compare_versions call
    adv,               \* inputs and result of one _is_version_affected call
    tree,              \* an extracted tree and the result of one locator call
    workdir,           \* a work directory with sibling candidates, and who picks which
    correlator         \* one OSINTAnalyzer.analyze call: its adapters and its results

storeVars == <<projects, findings, cve_findings, osint_results>>
pipeVars == <<firmware, upload, task, status_calls>>
wsVars == <<active_connections, ws, received, clock, last_publish, pruned, loop>>
unitVars == <<osint, conf, cmp, adv, tree, workdir, correlator>>
vars == <<projects, findings, cve_findings, osint_results, firmware, upload, task,
          status_calls, active_connections, ws, received, clock, last_publish,
          pruned, loop, agg, osint, conf, cmp, adv, tree, workdir,
          correlator>>

\* ------------------------------------------------------------- ConnectionManager
Contains(lst, c) == \E i \in 1..Len(lst) : lst[i] = c

\* list.remove(c): drops the first occurrence of c
RemoveFirst(lst, c) ==
    LET i == CHOOSE k \in 1..Len(lst) :
                 lst[k] = c /\ \A j \in 1..(k - 1) : lst[j] # c
    IN  SubSeq(lst, 1, i - 1) \o SubSeq(lst, i + 1, Len(lst))

Occurrences(lst, c) == Cardinality({i \in 1..Len(lst) : lst[i] = c})

\* websocket.send_text succeeds on a connection whose client is still there
SendOk(c) == ws[c].state = "open"

\* The for loop of send_project_update over the list it mutates: the list
\* iterator keeps a position, so after the removal of the element at that
\* position the loop goes on one element further.  idx is the position of
\* the next element (from 1), sent the connections written to, in order.
RECURSIVE SendLoop(_, _, _)
SendLoop(lst, idx, sent) ==
    IF idx > Len(lst)
    THEN [list |-> lst, sent |-> sent]
    ELSE LET connection == lst[idx]
         IN  IF SendOk(connection)
             THEN SendLoop(lst, idx + 1, Append(sent, connection))
             ELSE SendLoop(RemoveFirst(lst, connection), idx + 1, sent)

send_project_update(project_id, message) ==
    /\ last_publish' = [project |-> project_id,
                        subscribers |-> IF project_id \in DOMAIN active_connections
                                        THEN active_connections[project_id]
                                        ELSE <<>>,
                        failed |-> IF project_id \in DOMAIN active_connections
                                   THEN {c \in WebSockets :
                                           /\ Contains(active_connections[project_id], c)
                                           /\ ~SendOk(c)}
                                   ELSE {},
                        message |-> message,
                        calls |-> last_publish.calls + 1]
    /\ IF project_id \in DOMAIN active_connections
       THEN LET res == SendLoop(active_connections[project_id], 1, <<>>)
            IN  /\ active_connections' =
                       [active_connections EXCEPT ![project_id] = res.list]
                /\ received' =
                       [w \in WebSockets |->
                           IF Occurrences(res.sent, w) = 0 THEN received[w]
                           ELSE IF Occurrences(res.sent, w) = 1
                                THEN Append(received[w], message)
                                ELSE Append(Append(received[w], message), message)]
                /\ pruned' = pruned \cup
                       {c \in WebSockets :
                           /\ Contains(active_connections[project_id], c)
                           /\ ~Contains(res.list, c)}
       ELSE UNCHANGED <<active_connections, received, pruned>>

\* progress: int = None
NoProgress == -1

broadcast_status_update(project_id, status, message, progress) ==
    /\ send_project_update(project_id,
                           [type |-> "status_update", project_id |-> project_id,
                            status |-> status, message |-> message,
                            progress |-> progress, timestamp |-> clock])
    /\ clock' = clock + 1
    /\ UNCHANGED ws

\* ConnectionManager.connect
connect(websocket, project_id) ==
    active_connections' =
        IF project_id \in DOMAIN active_connections
        THEN [active_connections EXCEPT ![project_id] = Append(@, websocket)]
        ELSE active_connections @@ (project_id :> <<websocket>>)

\* ConnectionManager.disconnect: the registry it leaves and whether
\* list.remove raised ValueError
disconnect(websocket, project_id) ==
    IF project_id \in DOMAIN active_connections
    THEN IF Contains(active_connections[project_id], websocket)
         THEN LET rest == RemoveFirst(active_connections[project_id], websocket)
              IN  [registry |-> IF rest = <<>>
                                THEN [p \in DOMAIN active_connections \ {project_id}
                                          |-> active_connections[p]]
                                ELSE [active_connections EXCEPT ![project_id] = rest],
                   raised |-> FALSE]
         ELSE [registry |-> active_connections, raised |-> TRUE]
    ELSE [registry |-> active_connections, raised |-> FALSE]

\* websocket_endpoint: a client opens /ws/project/{project_id}
Connect(w, p) ==
    /\ ws[w].state = "new"
    /\ connect(w, p)
    /\ ws' = [ws EXCEPT ![w] = [state |-> "open", project |-> p, error |-> FALSE]]
    /\ UNCHANGED <<received, clock, last_publish, pruned, loop>>

\* the client of an open connection goes away
ClientGone(w) ==
    /\ ws[w].state = "open"
    /\ ws' = [ws EXCEPT ![w].state = "broken"]
    /\ UNCHANGED <<active_connections, received, clock, last_publish, pruned, loop>>

\* websocket_endpoint: receive_text raises WebSocketDisconnect
EndpointDisconnect(w) ==
    /\ ws[w].state = "broken"
    /\ LET res == disconnect(w, ws[w].project)
       IN  /\ active_connections' = res.registry
           /\ ws' = [ws EXCEPT ![w].state = "closed", ![w].error = res.raised]
    /\ UNCHANGED <<received, clock, last_publish, pruned, loop>>

\* ------------------------------------------------------------- status ledger
Msg(text, detail) == [text |-> text, detail |-> detail]

\* asyncio.get_event_loop().is_running(), asked where the synchronous task
\* runs.  In a Celery worker process no loop runs (or the call raises and the
\* bare except passes) and the broadcast is skipped; where the task runs on
\* the thread of a running loop, create_task queues the broadcast on it.
loop_is_running == loop.running

update_project_status(r, project_id, status, message) ==
    IF project_id \in DOMAIN projects
    THEN /\ projects' = [projects EXCEPT ![project_id].status = status]
         /\ status_calls' = Append(status_calls,
                                   [run |-> r, status |-> status, message |-> message,
                                    listeners |->
                                        IF project_id \in DOMAIN active_connections
                                        THEN active_connections[project_id]
                                        ELSE <<>>])
         /\ IF loop_is_running
            THEN /\ loop' = [loop EXCEPT !.tasks =
                                Append(@, [project_id |-> project_id, status |-> status,
                                           message |-> message, progress |-> NoProgress])]
                 /\ UNCHANGED <<active_connections, ws, received, clock,
                                last_publish, pruned>>
            ELSE UNCHANGED wsVars
    ELSE UNCHANGED <<projects, status_calls, wsVars>>

\* ------------------------------------------------------------- risk aggregator
\* the aggregator with its second threshold off by one
calculate_risk_level_gt3(finding_rows, cve_rows) ==
    LET critical_count == finding_rows["critical"] + cve_rows["critical"]
        high_count == finding_rows["high"] + cve_rows["high"]
        medium_count == finding_rows["medium"] + cve_rows["medium"]
    IN  IF critical_count > 0 THEN "critical"
        ELSE IF high_count > 3 THEN "critical"
        ELSE IF high_count > 0 THEN "high"
        ELSE IF medium_count >= 5 THEN "high"
        ELSE IF medium_count > 0 THEN "medium"
        ELSE "low"

\* the aggregator counting the findings table alone
calculate_risk_level_findings_only(finding_rows, cve_rows) ==
    LET critical_count == finding_rows["critical"]
        high_count == finding_rows["high"]
        medium_count == finding_rows["medium"]
    IN  IF critical_count > 0 THEN "critical"
        ELSE IF high_count >= 3 THEN "critical"
        ELSE IF high_count > 0 THEN "high"
        ELSE IF medium_count >= 5 THEN "high"
        ELSE IF medium_count > 0 THEN "medium"
        ELSE "low"

calculate_risk_level(finding_rows, cve_rows) ==
    LET critical_count == finding_rows["critical"] + cve_rows["critical"]
        high_count == finding_rows["high"] + cve_rows["high"]
        medium_count == finding_rows["medium"] + cve_rows["medium"]
    IN  IF critical_count > 0 THEN "critical"
        ELSE IF high_count >= 3 THEN "critical"
        ELSE IF high_count > 0 THEN "high"
        ELSE IF medium_count >= 5 THEN "high"
        ELSE IF medium_count > 0 THEN "medium"
        ELSE "low"

RECURSIVE SumRows(_, _)
SumRows(table, runs) ==
    IF runs = {} THEN EmptyRows
    ELSE LET r == CHOOSE x \in runs : TRUE
         IN  AddRows(table[r], SumRows(table, runs \ {r}))

\* the rows of the project that are committed in the store
StoredFindings == SumRows(findings, RunIds)
StoredCves == SumRows(cve_findings, RunIds)

\* What db.query(...).all() returns inside the session of run r: the
\* committed rows and the rows the session itself has added (the session
\* flushes its pending rows before it queries).
SessionFindings(r) == AddRows(StoredFindings, task[r].new_findings)
SessionCves(r) == AddRows(StoredCves, task[r].new_cves)

\* ------------------------------------------------------------- extractor
ToolOutcomes == {"exit0", "nonzero", "timeout", "oserror"}

\* BinwalkExtractor._run_extraction
run_extraction(tool) ==
    CASE tool = "exit0" -> [success |-> TRUE, error |-> ""]
      [] tool = "nonzero" -> [success |-> FALSE, error |-> ""]
      [] tool = "timeout" -> [success |-> FALSE, error |-> "Extraction timed out"]
      [] tool = "oserror" -> [success |-> FALSE, error |-> "OSError"]

\* BinwalkExtractor.extract: dir_error is an exception of the method's own
\* file-system calls (mkdir, the listing of the work directory)
extract(tool, dir_error) ==
    IF dir_error
    THEN [success |-> FALSE, error |-> "PermissionError",
          extraction_log |-> [success |-> FALSE, error |-> ""]]
    ELSE [success |-> TRUE, error |-> "",
          extraction_log |-> run_extraction(tool)]

\* ------------------------------------------------------------- upload
NewProject ==
    [status |-> "uploading", risk_level |-> "low", completed_at |-> FALSE,
     extraction_results |-> FALSE]

NewTask ==
    [pc |-> "idle", db |-> "none", tool |-> "none",
     extraction_result |-> [success |-> FALSE, error |-> "",
                            extraction_log |-> [success |-> FALSE, error |-> ""]],
     fs_root |-> FALSE, stages |-> {}, stage_errors |-> {},
     new_findings |-> EmptyRows, new_cves |-> EmptyRows, new_osint |-> 0,
     risk_level |-> "none", raised |-> "",
     ret |-> [kind |-> "none", error |-> "", findings_count |-> 0,
             cve_count |-> 0, osint_count |-> 0]]

\* upload_firmware: the project row is created and committed
UploadFirmware ==
    /\ upload = "none"
    /\ TheProject \notin DOMAIN projects
    /\ projects' = projects @@ (TheProject :> NewProject)
    /\ upload' = "created"
    /\ UNCHANGED <<findings, cve_findings, osint_results, firmware, task,
                   status_calls, wsVars, agg, unitVars>>

\* the background task of the upload: start_analysis_pipeline sends the
\* Celery task
StartAnalysisPipeline ==
    /\ upload = "created"
    /\ upload' = "enqueued"
    /\ task' = [task EXCEPT ![1].pc = "queued"]
    /\ UNCHANGED <<storeVars, firmware, status_calls, wsVars, agg, unitVars>>

\* start_analysis_pipeline called once more for the project while run r is
\* not yet taken: nothing looks at the runs in flight
Retrigger(r) ==
    /\ upload = "enqueued"
    /\ task[r].pc = "idle"
    /\ task' = [task EXCEPT ![r].pc = "queued"]
    /\ UNCHANGED <<storeVars, firmware, upload, status_calls, wsVars, agg, unitVars>>

\* delete_project: the row and, by cascade, its result rows
DeleteProject ==
    /\ TheProject \in DOMAIN projects
    /\ projects' = [p \in DOMAIN projects \ {TheProject} |-> projects[p]]
    /\ findings' = [r \in RunIds |-> EmptyRows]
    /\ cve_findings' = [r \in RunIds |-> EmptyRows]
    /\ osint_results' = [r \in RunIds |-> 0]
    /\ UNCHANGED <<pipeVars, wsVars, agg, unitVars>>

\* ------------------------------------------------------------- analyze_firmware
\* a statement of the try body can raise: the database, the construction of
\* a row
Raises == firmware.faults

\* whether a call that catches its own exceptions meets one
Fails == IF firmware.faults THEN BOOLEAN ELSE {FALSE}

\* the handler without its status update
Handler_NoStatus(r, t, e) ==
    /\ task' = [task EXCEPT ![r] =
                   [t EXCEPT !.pc = "done", !.db = "closed", !.raised = e,
                             !.new_findings = EmptyRows, !.new_cves = EmptyRows,
                             !.new_osint = 0,
                             !.ret = [t.ret EXCEPT !.kind = "error", !.error = e]]]
    /\ UNCHANGED <<projects, status_calls, wsVars>>

\* the handler without its finally clause
Handler_NoClose(r, t, e) ==
    /\ update_project_status(r, TheProject, "failed", Msg("Analisis gagal", e))
    /\ task' = [task EXCEPT ![r] =
                   [t EXCEPT !.pc = "done", !.raised = e,
                             !.ret = [t.ret EXCEPT !.kind = "error", !.error = e]]]

\* except Exception as e: ... finally: db.close().  t is the task as the
\* try body left it; the session's pending rows go with the session.
Handler(r, t, e) ==
    /\ update_project_status(r, TheProject, "failed", Msg("Analisis gagal", e))
    /\ task' = [task EXCEPT ![r] =
                   [t EXCEPT !.pc = "done", !.db = "closed", !.raised = e,
                             !.new_findings = EmptyRows, !.new_cves = EmptyRows,
                             !.new_osint = 0,
                             !.ret = [t.ret EXCEPT !.kind = "error", !.error = e]]]

\* db = get_db_session(); project = db.query(Project)...first()
LoadProject(r) ==
    /\ task[r].pc = "queued"
    /\ \/ /\ TheProject \in DOMAIN projects
          /\ task' = [task EXCEPT ![r].pc = "update_extracting", ![r].db = "open"]
          /\ UNCHANGED <<projects, status_calls, wsVars>>
       \/ /\ TheProject \notin DOMAIN projects
          /\ task' = [task EXCEPT ![r].pc = "done", ![r].db = "closed",
                         ![r].ret = [task[r].ret EXCEPT !.kind = "error",
                                                     !.error = "Project not found"]]
          /\ UNCHANGED <<projects, status_calls, wsVars>>
       \/ Raises /\ Handler(r, task[r], "query failed")
    /\ UNCHANGED <<findings, cve_findings, osint_results, upload, firmware, agg, unitVars>>

\* update_project_status(...EXTRACTING...); the call raises when its own
\* query or commit fails, and the exception reaches the handler
SetExtracting(r) ==
    /\ task[r].pc = "update_extracting"
    /\ \/ /\ update_project_status(r, TheProject, "extracting",
                                   Msg("Mengekstraksi filesystem...", ""))
          /\ task' = [task EXCEPT ![r].pc = "extract"]
       \/ Raises /\ Handler(r, task[r], "status update failed")
    /\ UNCHANGED <<findings, cve_findings, osint_results, upload, firmware, agg, unitVars>>

\* extractor.extract(...) and the check of its result
Extract(r) ==
    /\ task[r].pc = "extract"
    /\ \E tool \in firmware.tools, dir_error \in Fails, root \in BOOLEAN :
          LET extraction_result == extract(tool, dir_error)
              t == [task[r] EXCEPT !.tool = tool, !.fs_root = root,
                                   !.extraction_result = extraction_result]
          IN  IF ~extraction_result.success
              THEN /\ update_project_status(r, TheProject, "failed",
                          Msg("Ekstraksi gagal", extraction_result.error))
                   /\ task' = [task EXCEPT ![r] =
                          [t EXCEPT !.pc = "done", !.db = "closed",
                              !.ret = [t.ret EXCEPT !.kind = "error",
                                       !.error = extraction_result.error]]]
              ELSE /\ task' = [task EXCEPT ![r] =
                                  [t EXCEPT !.pc = "persist_extraction"]]
                   /\ UNCHANGED <<projects, status_calls, wsVars>>
    /\ UNCHANGED <<findings, cve_findings, osint_results, upload, firmware, agg, unitVars>>

\* project.extraction_results = extraction_result; db.commit()
PersistExtraction(r) ==
    /\ task[r].pc = "persist_extraction"
    /\ \/ /\ TheProject \in DOMAIN projects
          /\ projects' = [projects EXCEPT ![TheProject].extraction_results = TRUE]
          /\ task' = [task EXCEPT ![r].pc = "update_analyzing"]
          /\ UNCHANGED <<status_calls, wsVars>>
       \/ Raises /\ Handler(r, task[r], "commit failed")
    /\ UNCHANGED <<findings, cve_findings, osint_results, upload, firmware, agg, unitVars>>

SetAnalyzing(r) ==
    /\ task[r].pc = "update_analyzing"
    /\ \/ /\ update_project_status(r, TheProject, "analyzing",
                                   Msg("Melakukan analisis statis...", ""))
          /\ task' = [task EXCEPT ![r].pc = "static"]
       \/ Raises /\ Handler(r, task[r], "status update failed")
    /\ UNCHANGED <<findings, cve_findings, osint_results, upload, firmware, agg, unitVars>>

\* an analyzer whose except branch returns the findings gathered so far
static_analyze_partial(root, internal_error, rows) ==
    IF ~root THEN EmptyRows ELSE rows

\* an analyzer that scans the extraction directory when no root is found
static_analyze_without_root(root, internal_error, rows) ==
    IF internal_error THEN EmptyRows ELSE rows

\* StaticAnalyzer.analyze: an internal error or a missing filesystem root
\* gives no findings
static_analyze(root, internal_error, rows) ==
    IF internal_error THEN EmptyRows
    ELSE IF ~root THEN EmptyRows
    ELSE rows

\* CVEAnalyzer.analyze
cve_analyze(root, internal_error, rows) ==
    IF internal_error THEN EmptyRows
    ELSE IF ~root THEN EmptyRows
    ELSE rows

\* OSINTAnalyzer.analyze
osint_analyze(internal_error, n) == IF internal_error THEN 0 ELSE n

\* static_analyzer.analyze(...) and db.add of every finding
StaticAnalysis(r) ==
    /\ task[r].pc = "static"
    /\ \E internal_error \in Fails, rows \in RowSets(firmware.findings) :
          LET t == [task[r] EXCEPT
                       !.stages = @ \cup {"static"},
                       !.stage_errors = IF internal_error THEN @ \cup {"static"} ELSE @,
                       !.new_findings =
                           static_analyze(task[r].fs_root, internal_error, rows)]
          IN  \/ /\ task' = [task EXCEPT ![r] = [t EXCEPT !.pc = "cve"]]
                 /\ UNCHANGED <<projects, status_calls, wsVars>>
              \/ Raises /\ Handler(r, t, "Finding failed")
    /\ UNCHANGED <<findings, cve_findings, osint_results, upload, firmware, agg, unitVars>>

\* cve_analyzer.analyze(...) and db.add of every CVE finding
CVEAnalysis(r) ==
    /\ task[r].pc = "cve"
    /\ \E internal_error \in Fails, rows \in RowSets(firmware.cves) :
          LET t == [task[r] EXCEPT
                       !.stages = @ \cup {"cve"},
                       !.stage_errors = IF internal_error THEN @ \cup {"cve"} ELSE @,
                       !.new_cves =
                           cve_analyze(task[r].fs_root, internal_error, rows)]
          IN  \/ /\ task' = [task EXCEPT ![r] = [t EXCEPT !.pc = "update_osint"]]
                 /\ UNCHANGED <<projects, status_calls, wsVars>>
              \/ Raises /\ Handler(r, t, "CVEFinding failed")
    /\ UNCHANGED <<findings, cve_findings, osint_results, upload, firmware, agg, unitVars>>

\* the pipeline without its status update before the OSINT stage
SetOsint_NoWrite(r) ==
    /\ task[r].pc = "update_osint"
    /\ task' = [task EXCEPT ![r].pc = "osint"]
    /\ UNCHANGED <<storeVars, status_calls, wsVars, upload, firmware, agg, unitVars>>

SetOsint(r) ==
    /\ task[r].pc = "update_osint"
    /\ \/ /\ update_project_status(r, TheProject, "osint",
                                   Msg("Mengumpulkan intelligence...", ""))
          /\ task' = [task EXCEPT ![r].pc = "osint"]
       \/ Raises /\ Handler(r, task[r], "status update failed")
    /\ UNCHANGED <<findings, cve_findings, osint_results, upload, firmware, agg, unitVars>>

\* osint_analyzer.analyze(...) and db.add of every OSINT result
OsintAnalysis(r) ==
    /\ task[r].pc = "osint"
    /\ \E internal_error \in Fails, n \in 0..firmware.osint :
          LET t == [task[r] EXCEPT
                       !.stages = @ \cup {"osint"},
                       !.stage_errors = IF internal_error THEN @ \cup {"osint"} ELSE @,
                       !.new_osint = osint_analyze(internal_error, n)]
          IN  \/ /\ task' = [task EXCEPT ![r] = [t EXCEPT !.pc = "risk"]]
                 /\ UNCHANGED <<projects, status_calls, wsVars>>
              \/ Raises /\ Handler(r, t, "OSINTResult failed")
    /\ UNCHANGED <<findings, cve_findings, osint_results, upload, firmware, agg, unitVars>>

\* a commit that replaces the rows of the project by the rows of the run
CalculateRisk_Replace(r) ==
    /\ task[r].pc = "risk"
    /\ \/ /\ TheProject \in DOMAIN projects
          /\ LET risk_level == calculate_risk_level(SessionFindings(r), SessionCves(r))
             IN  /\ projects' = [projects EXCEPT ![TheProject].risk_level = risk_level,
                                                 ![TheProject].completed_at = TRUE]
                 /\ task' = [task EXCEPT ![r].pc = "update_completed",
                                ![r].risk_level = risk_level,
                                ![r].ret = [kind |-> "none", error |-> "",
                                            findings_count |-> RowCount(task[r].new_findings),
                                            cve_count |-> RowCount(task[r].new_cves),
                                            osint_count |-> task[r].new_osint],
                                ![r].new_findings = EmptyRows,
                                ![r].new_cves = EmptyRows,
                                ![r].new_osint = 0]
          /\ findings' = [x \in RunIds |->
                              IF x = r THEN task[r].new_findings ELSE EmptyRows]
          /\ cve_findings' = [x \in RunIds |->
                                  IF x = r THEN task[r].new_cves ELSE EmptyRows]
          /\ osint_results' = [x \in RunIds |-> IF x = r THEN task[r].new_osint ELSE 0]
          /\ UNCHANGED <<status_calls, wsVars>>
       \/ /\ Raises /\ Handler(r, task[r], "commit failed")
          /\ UNCHANGED <<findings, cve_findings, osint_results>>
    /\ UNCHANGED <<upload, firmware, agg, unitVars>>

\* risk_level = _calculate_risk_level(db, project_id); project.risk_level,
\* project.completed_at; db.commit(): the one commit that stores the rows
CalculateRisk(r) ==
    /\ task[r].pc = "risk"
    /\ \/ /\ TheProject \in DOMAIN projects
          /\ LET risk_level == calculate_risk_level(SessionFindings(r), SessionCves(r))
             IN  /\ projects' = [projects EXCEPT ![TheProject].risk_level = risk_level,
                                                 ![TheProject].completed_at = TRUE]
                 /\ task' = [task EXCEPT ![r].pc = "update_completed",
                                ![r].risk_level = risk_level,
                                ![r].ret = [kind |-> "none", error |-> "",
                                            findings_count |-> RowCount(task[r].new_findings),
                                            cve_count |-> RowCount(task[r].new_cves),
                                            osint_count |-> task[r].new_osint],
                                ![r].new_findings = EmptyRows,
                                ![r].new_cves = EmptyRows,
                                ![r].new_osint = 0]
          /\ findings' = [findings EXCEPT ![r] = AddRows(@, task[r].new_findings)]
          /\ cve_findings' = [cve_findings EXCEPT ![r] = AddRows(@, task[r].new_cves)]
          /\ osint_results' = [osint_results EXCEPT ![r] = @ + task[r].new_osint]
          /\ UNCHANGED <<status_calls, wsVars>>
       \/ /\ Raises /\ Handler(r, task[r], "commit failed")
          /\ UNCHANGED <<findings, cve_findings, osint_results>>
    /\ UNCHANGED <<upload, firmware, agg, unitVars>>

\* the final status update, the return value, finally: db.close()
SetCompleted(r) ==
    /\ task[r].pc = "update_completed"
    /\ \/ /\ update_project_status(r, TheProject, "completed",
                                   Msg("Analisis selesai!", ""))
          /\ task' = [task EXCEPT ![r].pc = "done", ![r].db = "closed",
                         ![r].ret = [task[r].ret EXCEPT !.kind = "success"]]
       \/ Raises /\ Handler(r, task[r], "status update failed")
    /\ UNCHANGED <<findings, cve_findings, osint_results, upload, firmware, agg, unitVars>>

\* ------------------------------------------------------------- OSINT analyzer
\* Time is counted in ticks, Resolution ticks to the second.
Resolution == 2     \* ticks per second
MaxTime == 8        \* last tick at which the analyzer still acts
MaxRequests == 3    \* outbound requests of one OSINT stage

\* self.request_delay = 1  # seconds between requests
request_delay == 1

\* the limiter that stamps the time at which it was entered
rate_limit_stamp_on_entry(o, oversleep) ==
    LET current_time == o.now
        time_since_last == current_time - o.last_request_time
        slept == IF time_since_last < request_delay * Resolution
                 THEN request_delay * Resolution - time_since_last + oversleep
                 ELSE 0
    IN  [o EXCEPT !.now = current_time + slept,
                  !.last_request_time = current_time,
                  !.limits = @ + 1]

\* OSINTAnalyzer._rate_limit: time.sleep returns after the time asked for
\* or oversleep ticks later
rate_limit(o, oversleep) ==
    LET current_time == o.now
        time_since_last == current_time - o.last_request_time
        slept == IF time_since_last < request_delay * Resolution
                 THEN request_delay * Resolution - time_since_last + oversleep
                 ELSE 0
    IN  [o EXCEPT !.now = current_time + slept,
                  !.last_request_time = current_time + slept,
                  !.limits = @ + 1]

\* an outbound request leaves at the analyzer's current time
request(o, source) ==
    [o EXCEPT !.requests = Append(@, [source |-> source, at |-> o.now])]

\* OSINTAnalyzer.__init__; time.time() is far beyond request_delay
NewOSINTAnalyzer ==
    [now |-> request_delay * Resolution, last_request_time |-> 0,
     limits |-> 0, requests |-> <<>>]

CanRequest == Len(osint.requests) < MaxRequests /\ osint.now < MaxTime

\* _google_search: self._rate_limit(); self.session.get(search_url)
google_search ==
    /\ CanRequest
    /\ \E oversleep \in 0..1 :
          osint' = request(rate_limit(osint, oversleep), "google_search")
    /\ UNCHANGED <<storeVars, pipeVars, wsVars, agg, correlator, workdir, conf, cmp, adv, tree>>

\* _search_credential_databases, one site: self._rate_limit() and then
\* _google_search with the site query
search_credential_databases ==
    /\ CanRequest
    /\ \E first \in 0..1, second \in 0..1 :
          osint' = request(rate_limit(rate_limit(osint, first), second),
                           "credential_database")
    /\ UNCHANGED <<storeVars, pipeVars, wsVars, agg, correlator, workdir, conf, cmp, adv, tree>>

\* _search_fcc_database: self._rate_limit(); self.session.get(fcc_url)
search_fcc_database ==
    /\ CanRequest
    /\ \E oversleep \in 0..1 :
          osint' = request(rate_limit(osint, oversleep), "fcc_database")
    /\ UNCHANGED <<storeVars, pipeVars, wsVars, agg, correlator, workdir, conf, cmp, adv, tree>>

\* _search_shodan, one query: self._rate_limit(); api.search(query)
search_shodan ==
    /\ CanRequest
    /\ \E oversleep \in 0..1 :
          osint' = request(rate_limit(osint, oversleep), "shodan")
    /\ UNCHANGED <<storeVars, pipeVars, wsVars, agg, correlator, workdir, conf, cmp, adv, tree>>

\* time passes while a response is awaited and parsed
Tick ==
    /\ osint.now < MaxTime
    /\ osint' = [osint EXCEPT !.now = @ + 1]
    /\ UNCHANGED <<storeVars, pipeVars, wsVars, agg, correlator, workdir, conf, cmp, adv, tree>>

\* ------------------------------------------------------------- confidence
\* A text (title + " " + snippet) is kept as the set of the words in it that
\* the scoring can look at.
Words ==
    {"advisory", "bulletin", "security", "update", "patch", "CVE",
     "official", "documentation"}

\* str.lower() on a word
Lower(w) ==
    IF w = "CVE" THEN "cve" ELSE w

\* keyword in text, on the lowered text
InText(keyword, text) == \E w \in text : Lower(w) = keyword

SearchTypes ==
    {"credentials", "vulnerability", "device_info", "security_advisory",
     "device_vulnerability"}

confidence_keywords ==
    [credentials |-> {"password", "username", "login", "default", "admin"},
     vulnerability |-> {"CVE", "exploit", "vulnerability", "security", "patch"},
     device_info |-> {"manual", "documentation", "datasheet", "specification"},
     security_advisory |-> {"advisory", "bulletin", "security", "update", "patch"}]

official_indicators == {"official", "manufacturer", ".com", "support", "documentation"}

AllKeywords ==
    confidence_keywords["credentials"] \cup confidence_keywords["vulnerability"]
    \cup confidence_keywords["device_info"]
    \cup confidence_keywords["security_advisory"] \cup official_indicators

\* the keywords and indicators that a text contains
Matched(text) == {k \in AllKeywords : InText(k, text)}

Min(a, b) == IF a < b THEN a ELSE b

keyword_matches(text, search_type) ==
    IF search_type \in DOMAIN confidence_keywords
    THEN Cardinality({k \in confidence_keywords[search_type] : InText(k, text)})
    ELSE 0

official_matches(text) == Cardinality({i \in official_indicators : InText(i, text)})

\* the score without its cap
calculate_confidence_uncapped(text, search_type) ==
    50 + keyword_matches(text, search_type) * 10 + official_matches(text) * 5

\* OSINTAnalyzer._calculate_confidence
calculate_confidence(text, search_type) ==
    Min(100, 50 + keyword_matches(text, search_type) * 10
                + official_matches(text) * 5)

NoConfidence ==
    [search_type |-> "credentials", text |-> {}, calculated |-> 0, score |-> 0,
     done |-> FALSE, boosted |-> FALSE]

\* one call of _calculate_confidence on the text drawn by InitConfidence
CalculateConfidence ==
    /\ ~conf.done
    /\ conf' = [conf EXCEPT !.score = calculate_confidence(conf.text, conf.search_type),
                            !.calculated = calculate_confidence(conf.text, conf.search_type),
                            !.done = TRUE]
    /\ UNCHANGED <<storeVars, pipeVars, wsVars, agg, correlator, workdir, osint, cmp, adv, tree>>

\* the words of a result found on a credential-database site
CredentialWords ==
    {"password", "username", "login", "default", "admin", "official"}

\* _search_credential_databases: result["confidence_score"] =
\* min(90, result["confidence_score"] + 20), on a result of the
\* "credentials" search of one site
BoostCredential ==
    /\ conf.done /\ ~conf.boosted
    /\ conf.search_type = "credentials"
    /\ conf' = [conf EXCEPT !.score = Min(90, conf.score + 20), !.boosted = TRUE]
    /\ UNCHANGED <<storeVars, pipeVars, wsVars, agg, correlator, workdir, osint, cmp, adv, tree>>

\* ------------------------------------------------------------- CVE matcher
MaxParts == 3       \* components of a version string
MaxEntries == 2     \* configuration entries of one advisory

\* A version string is kept as the list of the strings between its dots.
Components == {"0", "1", "2", "10"}

Versions == UNION {[1..n -> Components] : n \in 1..MaxParts}

\* int(x) on a component
IntOf(x) ==
    CASE x = "0" -> 0
      [] x = "1" -> 1
      [] x = "2" -> 2
      [] x = "10" -> 10

Parts(version) == [i \in 1..Len(version) |-> IntOf(version[i])]

Max(a, b) == IF a > b THEN a ELSE b

\* parts.extend([0] * (max_len - len(parts)))
Pad(parts, max_len) ==
    [i \in 1..max_len |-> IF i <= Len(parts) THEN parts[i] ELSE 0]

\* for v1, v2 in zip(v1_parts, v2_parts): the first difference decides
RECURSIVE CompareParts(_, _, _)
CompareParts(v1_parts, v2_parts, i) ==
    IF i > Len(v1_parts) THEN 0
    ELSE IF v1_parts[i] < v2_parts[i] THEN -1
    ELSE IF v1_parts[i] > v2_parts[i] THEN 1
    ELSE CompareParts(v1_parts, v2_parts, i + 1)

\* the comparison on the components as strings
compare_versions_as_text(version1, version2) ==
    LET max_len == Max(Len(version1), Len(version2))
        Code(x) == CASE x = "0" -> 0 [] x = "1" -> 1 [] x = "10" -> 2 [] x = "2" -> 3
        v1 == [i \in 1..Len(version1) |-> Code(version1[i])]
        v2 == [i \in 1..Len(version2) |-> Code(version2[i])]
    IN  CompareParts(Pad(v1, max_len), Pad(v2, max_len), 1)

\* CVEAnalyzer._compare_versions on dotted-integer strings
compare_versions(version1, version2) ==
    LET v1_parts == Parts(version1)
        v2_parts == Parts(version2)
        max_len == Max(Len(v1_parts), Len(v2_parts))
    IN  CompareParts(Pad(v1_parts, max_len), Pad(v2_parts, max_len), 1)

NoCompare == [version1 |-> <<"0">>, version2 |-> <<"0">>, result |-> 0, done |-> FALSE]

\* one call of _compare_versions on the pair drawn by InitCompare
CompareVersions ==
    /\ ~cmp.done
    /\ cmp' = [cmp EXCEPT !.result = compare_versions(cmp.version1, cmp.version2),
                          !.done = TRUE]
    /\ UNCHANGED <<storeVars, pipeVars, wsVars, agg, correlator, workdir, osint, conf, adv, tree>>

\* the criteria strings of an advisory and the names of identified software
Criteria == {"cpe:busybox", "cpe:OpenSSL"}

SoftwareNames == {"BusyBox", "openssl"}

\* str.lower()
LowerText(x) ==
    CASE x = "BusyBox" -> "busybox"
      [] x = "cpe:OpenSSL" -> "cpe:openssl"
      [] OTHER -> x

\* software_name.lower() in cpe_name.lower()
NameInCriteria(software_name, cpe_name) ==
    <<LowerText(software_name), LowerText(cpe_name)>>
        \in {<<"busybox", "cpe:busybox">>, <<"openssl", "cpe:openssl">>}

\* the versions a range bound or an identified version is drawn from; a
\* bound that is not given is the empty list
RangeVersions == {<<"1">>, <<"1", "10">>, <<"2">>}

NoVersion == <<>>

CpeMatches ==
    [criteria : Criteria,
     versionStartIncluding : RangeVersions \cup {NoVersion},
     versionEndExcluding : RangeVersions \cup {NoVersion}]

\* CVEAnalyzer._is_version_affected: the loops over nodes and cpeMatch
RECURSIVE is_version_affected(_, _, _)
is_version_affected(cpe_matches, software_name, version) ==
    IF cpe_matches = <<>> THEN FALSE
    ELSE LET cpe_match == Head(cpe_matches)
             version_start == cpe_match.versionStartIncluding
             version_end == cpe_match.versionEndExcluding
         IN  IF NameInCriteria(software_name, cpe_match.criteria)
             THEN IF version_start = NoVersion /\ version_end = NoVersion
                  THEN TRUE
                  ELSE IF /\ version_start # NoVersion
                          /\ compare_versions(version, version_start) >= 0
                          /\ \/ version_end = NoVersion
                             \/ compare_versions(version, version_end) < 0
                       THEN TRUE
                       ELSE is_version_affected(Tail(cpe_matches), software_name, version)
             ELSE is_version_affected(Tail(cpe_matches), software_name, version)

NoAdvisory ==
    [cpe_matches |-> <<>>, software_name |-> "BusyBox", version |-> <<"1">>,
     result |-> FALSE, done |-> FALSE]

\* one call of _is_version_affected on the advisory drawn by InitAffected
IsVersionAffected ==
    /\ ~adv.done
    /\ adv' = [adv EXCEPT
                  !.result = is_version_affected(adv.cpe_matches, adv.software_name,
                                                 adv.version),
                  !.done = TRUE]
    /\ UNCHANGED <<storeVars, pipeVars, wsVars, agg, correlator, workdir, osint, conf, cmp, tree>>

\* ------------------------------------------------------------- filesystem locator
\* An extracted tree: the work directory "root", in it "a", in that "b".
Dirs == {"root", "a", "b"}

Markers == {"bin", "etc", "usr", "var"}

\* extract_dir.rglob("*"): everything below extract_dir, parents first
Rglob == <<"a", "b">>

\* _find_main_filesystem of StaticAnalyzer and of CVEAnalyzer: present[d]
\* is the set of the common_dirs that exist in d
find_main_filesystem(present) ==
    LET hits == {i \in 1..Len(Rglob) :
                    Cardinality({d \in Markers : d \in present[Rglob[i]]}) >= 2}
    IN  IF hits = {} THEN "none"
        ELSE Rglob[CHOOSE i \in hits : \A j \in hits : i <= j]

NoTree == [present |-> [d \in Dirs |-> {}], result |-> "none", done |-> FALSE]

\* one call of _find_main_filesystem on the tree drawn by InitLocator
FindMainFilesystem ==
    /\ ~tree.done
    /\ tree' = [tree EXCEPT !.result = find_main_filesystem(tree.present),
                            !.done = TRUE]
    /\ UNCHANGED <<storeVars, pipeVars, wsVars, agg, correlator, workdir, osint, conf, cmp, adv>>

\* ------------------------------------------------------------- OSINT adapters
\* the source adapters in the order in which analyze calls them
Adapters ==
    <<"device_info", "credentials", "vulnerability", "fcc", "shodan", "advisory">>

\* the conditions under which analyze calls an adapter
Applicable(adapter, project, shodan_api_key) ==
    CASE adapter = "device_info" -> project.device_name \/ project.device_model
      [] adapter = "credentials" -> project.device_name /\ project.manufacturer
      [] adapter = "vulnerability" -> TRUE
      [] adapter = "fcc" -> project.device_model
      [] adapter = "shodan" -> shodan_api_key
      [] adapter = "advisory" -> TRUE

\* _search_fcc_database and _search_shodan wrap their whole body in
\* try/except Exception; the four others only catch inside _google_search
\* and _search_credential_databases, so that an exception raised in their
\* own statements leaves them
Propagating == {"device_info", "credentials", "vulnerability", "advisory"}

Projects ==
    [device_name : BOOLEAN, device_model : BOOLEAN, manufacturer : BOOLEAN]

NoAnalyze ==
    [project |-> [device_name |-> FALSE, device_model |-> FALSE,
                  manufacturer |-> FALSE],
     shodan_api_key |-> FALSE, step |-> 1, called |-> <<>>, results |-> <<>>,
     raised |-> "none", returned |-> "none", out |-> <<>>]

\* analyze, one adapter: skipped when its condition is false; otherwise it
\* is called and its results extend results["results"], or it raises and
\* the except clause of analyze returns {"error": ..., "results": []}
CallAdapter ==
    /\ correlator.returned = "none"
    /\ correlator.step <= Len(Adapters)
    /\ LET adapter == Adapters[correlator.step]
       IN  IF ~Applicable(adapter, correlator.project, correlator.shodan_api_key)
           THEN correlator' = [correlator EXCEPT !.step = @ + 1]
           ELSE \/ \E found \in BOOLEAN :
                     correlator' = [correlator EXCEPT
                         !.step = @ + 1,
                         !.called = Append(@, adapter),
                         !.results = IF found THEN Append(@, adapter) ELSE @]
                \/ /\ adapter \in Propagating
                   /\ correlator' = [correlator EXCEPT
                         !.step = Len(Adapters) + 1,
                         !.called = Append(@, adapter),
                         !.raised = adapter,
                         !.returned = "error",
                         !.out = <<>>]
    /\ UNCHANGED <<storeVars, pipeVars, wsVars, agg, osint, conf, cmp, adv, tree,
                   workdir>>

\* analyze: return results
ReturnResults ==
    /\ correlator.returned = "none"
    /\ correlator.step > Len(Adapters)
    /\ correlator' = [correlator EXCEPT !.returned = "results",
                                        !.out = correlator.results]
    /\ UNCHANGED <<storeVars, pipeVars, wsVars, agg, osint, conf, cmp, adv, tree,
                   workdir>>

\* ------------------------------------------------------------- extraction output
MaxSize == 2        \* total byte size of a candidate directory

\* the directories that the extraction left directly in the work directory
Candidates == {"a", "c"}

\* os.scandir of the work directory: the order in which iterdir and rglob
\* list its entries
ListingOrders == {<<"a", "c">>, <<"c", "a">>}

Index(lst, x) == CHOOSE i \in 1..Len(lst) : lst[i] = x

\* _is_filesystem_dir on a directory that holds nothing but some of bin,
\* etc, usr, var: found_dirs >= 2
is_filesystem_dir(present, d) == Cardinality(present[d]) >= 2

\* list.sort(key=size, reverse=True): stable, the larger first
SortBySize(lst, size) ==
    CHOOSE s \in [1..Len(lst) -> {lst[i] : i \in 1..Len(lst)}] :
        \A i, j \in 1..Len(lst) :
            i < j => \/ size[s[i]] > size[s[j]]
                     \/ /\ size[s[i]] = size[s[j]]
                        /\ Index(lst, s[i]) < Index(lst, s[j])

\* _find_extracted_filesystems: the filesystem directories among the
\* entries of the work directory, sorted by _get_dir_size
find_extracted_filesystems(order, present, size) ==
    SortBySize(SelectSeq(order, LAMBDA d : is_filesystem_dir(present, d)), size)

\* _find_main_filesystem on the work directory: the first entry that rglob
\* lists in which at least 2 of the common_dirs exist
find_main_filesystem_of(order, present) ==
    LET hits == {i \in 1..Len(order) :
                    Cardinality({d \in Markers : d \in present[order[i]]}) >= 2}
    IN  IF hits = {} THEN "none"
        ELSE order[CHOOSE i \in hits : \A j \in hits : i <= j]

NoWorkDir ==
    [order |-> <<"a", "c">>, present |-> [d \in Candidates |-> {}],
     size |-> [d \in Candidates |-> 0],
     extracted_filesystems |-> <<>>, main_filesystem |-> "none",
     static_root |-> "none", cve_root |-> "none", pc |-> "extract"]

\* BinwalkExtractor.extract: extracted_filesystems and main_filesystem
FindExtractedFilesystems ==
    /\ workdir.pc = "extract"
    /\ LET extracted_dirs ==
               find_extracted_filesystems(workdir.order, workdir.present, workdir.size)
       IN  workdir' = [workdir EXCEPT
                          !.extracted_filesystems = extracted_dirs,
                          !.main_filesystem = IF extracted_dirs # <<>>
                                              THEN extracted_dirs[1] ELSE "none",
                          !.pc = "static"]
    /\ UNCHANGED <<storeVars, pipeVars, wsVars, agg, correlator, osint, conf, cmp, adv, tree>>

\* StaticAnalyzer.analyze(extraction_result["extract_path"], ...): the
\* root it scans
StaticLocate ==
    /\ workdir.pc = "static"
    /\ workdir' = [workdir EXCEPT
                      !.static_root = find_main_filesystem_of(workdir.order,
                                                              workdir.present),
                      !.pc = "cve"]
    /\ UNCHANGED <<storeVars, pipeVars, wsVars, agg, correlator, osint, conf, cmp, adv, tree>>

\* CVEAnalyzer.analyze(extraction_result["extract_path"], ...): the root
\* it inventories
CveLocate ==
    /\ workdir.pc = "cve"
    /\ workdir' = [workdir EXCEPT
                      !.cve_root = find_main_filesystem_of(workdir.order,
                                                           workdir.present),
                      !.pc = "done"]
    /\ UNCHANGED <<storeVars, pipeVars, wsVars, agg, correlator, osint, conf, cmp, adv, tree>>

\* ------------------------------------------------------------- status endpoint
\* a mapping in which two stages have changed places
calculate_progress_swapped(status) ==
    CASE status = "pending" -> 0
      [] status = "uploading" -> 10
      [] status = "extracting" -> 30
      [] status = "analyzing" -> 80
      [] status = "osint" -> 60
      [] status = "completed" -> 100
      [] status = "failed" -> 0
      [] OTHER -> 0

\* _calculate_progress: progress_map.get(status, 0)
calculate_progress(status) ==
    CASE status = "pending" -> 0
      [] status = "uploading" -> 10
      [] status = "extracting" -> 30
      [] status = "analyzing" -> 60
      [] status = "osint" -> 80
      [] status = "completed" -> 100
      [] status = "failed" -> 0
      [] OTHER -> 0

\* get_analysis_status: what the endpoint reports for the stored project
reported_progress == calculate_progress(projects[TheProject].status)

\* _get_status_message: messages.get(status, "Status tidak diketahui")
get_status_message(status) ==
    CASE status = "pending" -> Msg("Menunggu pemrosesan...", "")
      [] status = "uploading" -> Msg("Firmware berhasil diterima", "")
      [] status = "extracting" -> Msg("Mengekstraksi filesystem...", "")
      [] status = "analyzing" -> Msg("Melakukan analisis statis...", "")
      [] status = "osint" -> Msg("Mengumpulkan intelligence...", "")
      [] status = "completed" -> Msg("Analisis selesai", "")
      [] status = "failed" -> Msg("Analisis gagal", "")
      [] OTHER -> Msg("Status tidak diketahui", "")

\* get_analysis_status: the response for the stored project
get_analysis_status ==
    [project_id |-> TheProject,
     status |-> projects[TheProject].status,
     progress |-> calculate_progress(projects[TheProject].status),
     message |-> get_status_message(projects[TheProject].status)]

\* ------------------------------------------------------------- environment
\* the clients that watch TheProject while it is analysed
Watchers == {"ws1", "ws2"}

\* a call of broadcast_status_update made on the server's event loop
PublishedStatuses == {"extracting", "completed"}

Publish(p, status) ==
    /\ clock < MaxPublish
    /\ broadcast_status_update(p, status, Msg("status", ""), NoProgress)
    /\ UNCHANGED <<storeVars, pipeVars, agg, unitVars, loop>>

\* the thread of the loop is free: no call of analyze_firmware is on it
LoopFree ==
    \A r \in RunIds : task[r].pc \in {"idle", "queued", "done"}

\* a loop that runs the task created last first
RunBroadcast_LastFirst ==
    /\ loop.tasks # <<>>
    /\ LoopFree
    /\ LET t == loop.tasks[Len(loop.tasks)]
       IN  broadcast_status_update(t.project_id, t.status, t.message, t.progress)
    /\ loop' = [loop EXCEPT !.tasks = SubSeq(@, 1, Len(@) - 1)]
    /\ UNCHANGED <<storeVars, pipeVars, agg, unitVars>>

\* the loop runs the oldest task that create_task queued: one
\* broadcast_status_update coroutine
RunBroadcast ==
    /\ loop.tasks # <<>>
    /\ LoopFree
    /\ LET t == Head(loop.tasks)
       IN  broadcast_status_update(t.project_id, t.status, t.message, t.progress)
    /\ loop' = [loop EXCEPT !.tasks = Tail(@)]
    /\ UNCHANGED <<storeVars, pipeVars, agg, unitVars>>

\* one call of _calculate_risk_level on the rows drawn by InitRisk
Aggregate ==
    /\ agg.result = "none"
    /\ agg' = [agg EXCEPT !.result = calculate_risk_level(agg.findings, agg.cves)]
    /\ UNCHANGED <<storeVars, pipeVars, wsVars, unitVars>>

\* ------------------------------------------------------------- specifications
InitStore ==
    /\ projects = [p \in {} |-> NewProject]
    /\ findings = [r \in RunIds |-> EmptyRows]
    /\ cve_findings = [r \in RunIds |-> EmptyRows]
    /\ osint_results = [r \in RunIds |-> 0]

InitPipeline ==
    /\ upload = "none"
    /\ task = [r \in RunIds |-> NewTask]
    /\ status_calls = <<>>

InitSockets ==
    /\ active_connections = [p \in {} |-> <<>>]
    /\ ws = [w \in WebSockets |->
                [state |-> "new", project |-> TheProject, error |-> FALSE]]
    /\ received = [w \in WebSockets |-> <<>>]
    /\ clock = 0
    /\ last_publish = [project |-> TheProject, subscribers |-> <<>>, failed |-> {},
                       message |-> Msg("", ""), calls |-> 0]
    /\ pruned = {}
    /\ loop = [running |-> FALSE, tasks |-> <<>>]

NoAggregate == [findings |-> EmptyRows, cves |-> EmptyRows, result |-> "none"]

\* a file in which the scanner, the matcher and the correlator may find
\* rows, and a plain file in which they find none
RichFirmware ==
    [findings |-> MaxFindings, cves |-> MaxCves, osint |-> MaxOsint,
     tools |-> ToolOutcomes, faults |-> TRUE]

PlainFirmware ==
    [findings |-> 0, cves |-> 0, osint |-> 0, tools |-> ToolOutcomes, faults |-> TRUE]

\* the components that a specification does not exercise stay as built
InitUnits ==
    /\ osint = NewOSINTAnalyzer
    /\ conf = NoConfidence
    /\ cmp = NoCompare
    /\ adv = NoAdvisory
    /\ tree = NoTree
    /\ workdir = NoWorkDir
    /\ correlator = NoAnalyze

Init ==
    /\ InitStore /\ InitPipeline /\ InitSockets /\ agg = NoAggregate
    /\ firmware = RichFirmware
    /\ InitUnits

Step(r) ==
    \/ LoadProject(r)
    \/ SetExtracting(r)
    \/ Extract(r)
    \/ PersistExtraction(r)
    \/ SetAnalyzing(r)
    \/ StaticAnalysis(r)
    \/ CVEAnalysis(r)
    \/ SetOsint(r)
    \/ OsintAnalysis(r)
    \/ CalculateRisk(r)
    \/ SetCompleted(r)

Watch(w) ==
    /\ \/ Connect(w, TheProject)
       \/ ClientGone(w)
       \/ EndpointDisconnect(w)
    /\ UNCHANGED <<storeVars, pipeVars, agg, unitVars>>

Next ==
    \/ UploadFirmware
    \/ StartAnalysisPipeline
    \/ DeleteProject
    \/ \E r \in RunIds : Step(r)

Spec == Init /\ [][Next]_vars

\* the pipeline on one plain file, watched by WebSocket clients
InitWatch ==
    /\ InitStore /\ InitPipeline /\ InitSockets /\ agg = NoAggregate
    /\ firmware = PlainFirmware
    /\ InitUnits

NextWatch ==
    \/ Next
    \/ \E w \in Watchers : Watch(w)

SpecWatch == InitWatch /\ [][NextWatch]_vars

\* the pipeline under a worker that goes on with every task it has taken:
\* every external call of a step returns or times out
SpecLive == Spec /\ \A r \in RunIds : WF_vars(Step(r))

\* the pipeline called on the thread of the server's running loop: the
\* loop's coroutines run while no call of analyze_firmware holds the thread
InitLoop ==
    /\ InitStore /\ InitPipeline /\ agg = NoAggregate
    /\ firmware = PlainFirmware
    /\ InitUnits
    /\ active_connections = [p \in {} |-> <<>>]
    /\ ws = [w \in WebSockets |->
                [state |-> "new", project |-> TheProject, error |-> FALSE]]
    /\ received = [w \in WebSockets |-> <<>>]
    /\ clock = 0
    /\ last_publish = [project |-> TheProject, subscribers |-> <<>>, failed |-> {},
                       message |-> Msg("", ""), calls |-> 0]
    /\ pruned = {}
    /\ loop = [running |-> TRUE, tasks |-> <<>>]

NextLoop ==
    \/ UploadFirmware
    \/ StartAnalysisPipeline
    \/ \E r \in RunIds : Step(r)
    \/ \E w \in Watchers : LoopFree /\ Watch(w)
    \/ RunBroadcast

SpecLoop == InitLoop /\ [][NextLoop]_vars

\* the pipeline with the analysis of the project triggered again, on a
\* file that the tool extracts and with nothing raising
SmallFirmware ==
    [findings |-> 1, cves |-> 1, osint |-> 1, tools |-> {"exit0"}, faults |-> FALSE]

InitRetrigger ==
    /\ InitStore /\ InitPipeline /\ InitSockets /\ agg = NoAggregate
    /\ firmware = SmallFirmware
    /\ InitUnits

NextRetrigger ==
    \/ UploadFirmware
    \/ StartAnalysisPipeline
    \/ \E r \in RunIds \ {1} : Retrigger(r)
    \/ \E r \in RunIds : Step(r)

SpecRetrigger == InitRetrigger /\ [][NextRetrigger]_vars

\* the broadcaster alone, driven by clients and by broadcasts
NextBroadcast ==
    \/ \E w \in WebSockets, p \in ProjectIds :
          Connect(w, p) /\ UNCHANGED <<storeVars, pipeVars, agg, unitVars>>
    \/ \E w \in WebSockets :
          ClientGone(w) /\ UNCHANGED <<storeVars, pipeVars, agg, unitVars>>
    \/ \E w \in WebSockets :
          EndpointDisconnect(w) /\ UNCHANGED <<storeVars, pipeVars, agg, unitVars>>
    \/ \E p \in ProjectIds, status \in PublishedStatuses : Publish(p, status)

SpecBroadcast == InitWatch /\ [][NextBroadcast]_vars

\* the risk aggregator alone, on every pair of row collections
MaxLow == 1

CountRows ==
    {b \in [RiskLevel -> 0..MaxCount] : b["low"] <= MaxLow}

InitRisk ==
    /\ InitStore /\ InitPipeline /\ InitSockets
    /\ firmware = PlainFirmware
    /\ InitUnits
    /\ agg \in {[findings |-> f, cves |-> c, result |-> "none"] :
                    f \in CountRows, c \in CountRows}

SpecRisk == InitRisk /\ [][Aggregate]_vars

\* one OSINT stage: the searches of one OSINTAnalyzer, in any order
InitOsint ==
    /\ InitStore /\ InitPipeline /\ InitSockets /\ agg = NoAggregate
    /\ firmware = PlainFirmware
    /\ InitUnits

NextOsint ==
    \/ google_search
    \/ search_credential_databases
    \/ search_fcc_database
    \/ search_shodan
    \/ Tick

SpecOsint == InitOsint /\ [][NextOsint]_vars

\* the confidence score alone, on every text and every search type
InitConfidence ==
    /\ InitStore /\ InitPipeline /\ InitSockets /\ agg = NoAggregate
    /\ firmware = PlainFirmware
    /\ osint = NewOSINTAnalyzer
    /\ cmp = NoCompare /\ adv = NoAdvisory /\ tree = NoTree /\ workdir = NoWorkDir
    /\ correlator = NoAnalyze
    /\ conf \in {[NoConfidence EXCEPT !.search_type = t, !.text = x] :
                     t \in SearchTypes, x \in SUBSET Words}

SpecConfidence == InitConfidence /\ [][CalculateConfidence]_vars

\* one result of a credential-database site: scored, then boosted
InitBoost ==
    /\ InitStore /\ InitPipeline /\ InitSockets /\ agg = NoAggregate
    /\ firmware = PlainFirmware
    /\ osint = NewOSINTAnalyzer
    /\ cmp = NoCompare /\ adv = NoAdvisory /\ tree = NoTree /\ workdir = NoWorkDir
    /\ correlator = NoAnalyze
    /\ conf \in {[NoConfidence EXCEPT !.text = x] : x \in SUBSET CredentialWords}

NextBoost ==
    \/ CalculateConfidence
    \/ BoostCredential

SpecBoost == InitBoost /\ [][NextBoost]_vars

InitCore ==
    /\ InitStore /\ InitPipeline /\ InitSockets /\ agg = NoAggregate
    /\ firmware = PlainFirmware

\* the version comparison alone, on every pair of versions
InitCompare ==
    /\ InitCore
    /\ osint = NewOSINTAnalyzer /\ conf = NoConfidence
    /\ adv = NoAdvisory /\ tree = NoTree /\ workdir = NoWorkDir
    /\ correlator = NoAnalyze
    /\ cmp \in {[version1 |-> a, version2 |-> b, result |-> 0, done |-> FALSE] :
                    a \in Versions, b \in Versions}

SpecCompare == InitCompare /\ [][CompareVersions]_vars

\* the affected-version test alone, on every advisory
InitAffected ==
    /\ InitCore
    /\ osint = NewOSINTAnalyzer /\ conf = NoConfidence
    /\ cmp = NoCompare /\ tree = NoTree /\ workdir = NoWorkDir
    /\ correlator = NoAnalyze
    /\ adv \in {[cpe_matches |-> m, software_name |-> n, version |-> v,
                  result |-> FALSE, done |-> FALSE] :
                    m \in UNION {[1..k -> CpeMatches] : k \in 0..MaxEntries},
                    n \in SoftwareNames, v \in RangeVersions}

SpecAffected == InitAffected /\ [][IsVersionAffected]_vars

\* the locator alone, on every placement of the marker directories
InitLocator ==
    /\ InitCore
    /\ osint = NewOSINTAnalyzer /\ conf = NoConfidence
    /\ cmp = NoCompare /\ adv = NoAdvisory
    /\ tree \in {[present |-> m, result |-> "none", done |-> FALSE] :
                     m \in [Dirs -> SUBSET Markers]}
    /\ workdir = NoWorkDir
    /\ correlator = NoAnalyze

SpecLocator == InitLocator /\ [][FindMainFilesystem]_vars

\* the extractor's ranking and the two analyzers' locators, on every work
\* directory with two candidates
InitRanking ==
    /\ InitCore
    /\ osint = NewOSINTAnalyzer /\ conf = NoConfidence
    /\ cmp = NoCompare /\ adv = NoAdvisory /\ tree = NoTree
    /\ correlator = NoAnalyze
    /\ workdir \in {[NoWorkDir EXCEPT !.order = o, !.present = m, !.size = z] :
                        o \in ListingOrders,
                        m \in [Candidates -> SUBSET Markers],
                        z \in [Candidates -> 0..MaxSize]}

NextRanking ==
    \/ FindExtractedFilesystems
    \/ StaticLocate
    \/ CveLocate

SpecRanking == InitRanking /\ [][NextRanking]_vars

\* one analyze call, on every project metadata, with and without the key
InitAnalyze ==
    /\ InitCore
    /\ osint = NewOSINTAnalyzer /\ conf = NoConfidence
    /\ cmp = NoCompare /\ adv = NoAdvisory /\ tree = NoTree
    /\ workdir = NoWorkDir
    /\ correlator \in {[NoAnalyze EXCEPT !.project = p, !.shodan_api_key = k] :
                           p \in Projects, k \in BOOLEAN}

NextAnalyze ==
    \/ CallAdapter
    \/ ReturnResults

SpecAnalyze == InitAnalyze /\ [][NextAnalyze]_vars

\* ------------------------------------------------------------- properties
Exists == TheProject \in DOMAIN projects

Status == projects[TheProject].status

Last(seq) == seq[Len(seq)]

\* the statuses run r wrote, in order
RECURSIVE RunStatuses(_, _)
RunStatuses(r, calls) ==
    IF calls = <<>> THEN <<>>
    ELSE IF Head(calls).run = r
         THEN <<Head(calls).status>> \o RunStatuses(r, Tail(calls))
         ELSE RunStatuses(r, Tail(calls))

StatusEdges ==
    {<<"pending", "uploading">>, <<"uploading", "extracting">>,
     <<"extracting", "analyzing">>, <<"analyzing", "osint">>,
     <<"osint", "completed">>}
    \cup {<<s, "failed">> : s \in {"uploading", "extracting", "analyzing", "osint"}}

\* C1: during a run every change of the stored status follows an edge of
\* PENDING -> UPLOADING -> EXTRACTING -> ANALYZING -> OSINT -> COMPLETED or
\* goes to FAILED from UPLOADING, EXTRACTING, ANALYZING or OSINT, and no
\* status is written once COMPLETED or FAILED has been written.
C1_StatusFollowsEdges ==
    [][ /\ (Exists /\ TheProject \in DOMAIN projects'
               /\ projects'[TheProject].status # Status)
            => <<Status, projects'[TheProject].status>> \in StatusEdges
        /\ status_calls' # status_calls
            => \A i \in DOMAIN status_calls :
                   status_calls[i].status \notin {"completed", "failed"} ]_vars

C1_Witness ==
    /\ Exists /\ Status = "completed"
    /\ task[1].pc = "done"
    /\ Len(status_calls) = 4

\* the extraction tool failed in run r: non-zero exit code, timeout, an
\* error while running it, or an error of the extractor's own calls
ExtractionFailed(r) ==
    /\ task[r].tool # "none"
    /\ \/ ~task[r].extraction_result.success
       \/ ~task[r].extraction_result.extraction_log.success

\* C2: whenever the extraction tool fails, the run sets the status to
\* FAILED with the extractor's error message and stops: no stage runs and
\* the status never becomes ANALYZING, OSINT or COMPLETED.
C2_ExtractionFailureFatal ==
    \A r \in RunIds :
        ExtractionFailed(r) =>
            /\ task[r].pc = "done"
            /\ task[r].stages = {}
            /\ Exists =>
                  /\ Status = "failed"
                  /\ Last(status_calls).message.text = "Ekstraksi gagal"

\* C3: an internal error of the scanner, the matcher or the correlator is
\* not fatal: after a successful extraction and without a top-level
\* exception the run passes ANALYZING and OSINT and ends COMPLETED, a
\* failing stage contributing no rows; a run ends FAILED only after an
\* extraction failure or a top-level exception.
C3_StageErrorsNotFatal ==
    \A r \in RunIds :
        task[r].pc = "done" =>
            /\ (task[r].extraction_result.success /\ task[r].raised = "") =>
                  /\ task[r].ret.kind = "success"
                  /\ task[r].stages = {"static", "cve", "osint"}
                  /\ "static" \in task[r].stage_errors =>
                        findings[r] = EmptyRows /\ task[r].ret.findings_count = 0
                  /\ "cve" \in task[r].stage_errors =>
                        cve_findings[r] = EmptyRows /\ task[r].ret.cve_count = 0
                  /\ "osint" \in task[r].stage_errors =>
                        osint_results[r] = 0 /\ task[r].ret.osint_count = 0
                  /\ Exists =>
                        /\ Status = "completed"
                        /\ RunStatuses(r, status_calls) =
                               <<"extracting", "analyzing", "osint", "completed">>
            /\ (Exists /\ Status = "failed") =>
                  ~task[r].extraction_result.success \/ task[r].raised # ""

C3_Witness ==
    /\ task[1].pc = "done"
    /\ task[1].stage_errors = {"static", "cve", "osint"}
    /\ Exists /\ Status = "completed"

TableLevel(critical, high, medium) ==
    CHOOSE level \in RiskLevel :
        /\ (level = "critical") = (critical >= 1 \/ high >= 3)
        /\ (level = "high") =
               (critical = 0 /\ high < 3 /\ (high >= 1 \/ medium >= 5))
        /\ (level = "medium") =
               (critical = 0 /\ high = 0 /\ medium >= 1 /\ medium < 5)
        /\ (level = "low") = (critical = 0 /\ high = 0 /\ medium = 0)

\* C6: for all counts the aggregator returns the first matching row of the
\* decision table, applied to the counts of Findings and CVEFindings
\* together; the low count and the table a row comes from do not matter.
C6_DecisionTable ==
    agg.result # "none" =>
        agg.result = TableLevel(agg.findings["critical"] + agg.cves["critical"],
                                agg.findings["high"] + agg.cves["high"],
                                agg.findings["medium"] + agg.cves["medium"])

C6_Witness ==
    /\ agg.result = "high"
    /\ agg.findings["high"] + agg.cves["high"] = 0
    /\ agg.findings["medium"] < 5 /\ agg.cves["medium"] < 5
    /\ agg.findings["medium"] + agg.cves["medium"] >= 5
    /\ agg.findings["low"] > 0

\* C7: whenever the stored status is COMPLETED, the stored risk level is
\* the decision table applied to all Findings and CVEFindings stored for
\* the project, the rows of the completing run included.
C7_RiskMatchesStoredRows ==
    (Exists /\ Status = "completed") =>
        projects[TheProject].risk_level =
            TableLevel(StoredFindings["critical"] + StoredCves["critical"],
                       StoredFindings["high"] + StoredCves["high"],
                       StoredFindings["medium"] + StoredCves["medium"])

C7_Witness ==
    /\ Exists /\ Status = "completed"
    /\ projects[TheProject].risk_level = "critical"
    /\ StoredFindings["critical"] = 0 /\ StoredCves["critical"] = 0
    /\ StoredFindings["high"] > 0 /\ StoredCves["high"] > 0

\* C8: send_project_update delivers the update exactly once to every
\* subscriber of the project whose delivery does not fail, wherever the
\* failing subscribers stand in the list, and removes every failing one.
C8_PublishReachesAll ==
    last_publish.calls > 0 =>
        \A w \in WebSockets :
            Contains(last_publish.subscribers, w) =>
                IF w \in last_publish.failed
                THEN ~Contains(active_connections[last_publish.project], w)
                ELSE Occurrences(received[w], last_publish.message) = 1

\* C9: every status written through update_project_status is delivered to
\* every client subscribed to the project at that time: a client that was
\* subscribed when the status was written and is still connected when the
\* run has ended has received the event.
C9_TransitionsDelivered ==
    \A i \in DOMAIN status_calls :
        \A w \in Watchers :
            (/\ Contains(status_calls[i].listeners, w)
             /\ ws[w].state = "open"
             /\ task[status_calls[i].run].pc = "done")
            => \E j \in DOMAIN received[w] :
                   received[w][j].status = status_calls[i].status

\* C10: the registry maps no project to an empty list, and a connection is
\* in a project's list exactly when it subscribed to the project and has
\* neither unsubscribed nor been removed by a failed delivery.
C10_RegistryExact ==
    /\ \A p \in DOMAIN active_connections : active_connections[p] # <<>>
    /\ \A w \in WebSockets, p \in ProjectIds :
           (p \in DOMAIN active_connections /\ Contains(active_connections[p], w))
           <=> (/\ ws[w].state \in {"open", "broken"}
                /\ ws[w].project = p
                /\ w \notin pruned)

\* C11: the first stored status of every project is PENDING: a project that
\* was created and whose analysis has written no status yet is PENDING, and
\* it is still PENDING or UPLOADING when the first run writes EXTRACTING.
C11_FirstStatusPending ==
    (Exists /\ status_calls = <<>>) =>
        /\ upload = "created" => Status = "pending"
        /\ upload = "enqueued" => Status \in {"pending", "uploading"}

\* C12: two consecutive outbound requests of one OSINT stage, whatever
\* their sources, are at least request_delay apart, and every request has
\* passed through _rate_limit.
C12_RequestsSpaced ==
    /\ \A i \in 1..(Len(osint.requests) - 1) :
           osint.requests[i + 1].at - osint.requests[i].at
               >= request_delay * Resolution
    /\ Len(osint.requests) <= osint.limits

C12_Witness ==
    /\ Len(osint.requests) = 3
    /\ osint.requests[1].source = "google_search"
    /\ osint.requests[2].source = "fcc_database"
    /\ osint.requests[3].source = "shodan"
    /\ osint.requests[2].at - osint.requests[1].at = request_delay * Resolution
    /\ osint.requests[3].at - osint.requests[2].at > request_delay * Resolution

\* C13: the confidence score is an integer between the base 50 and 100,
\* and a text that contains every keyword and every official-source
\* indicator that another text contains does not score lower than it.
C13_ConfidenceBoundedMonotonic ==
    conf.done =>
        /\ conf.score \in 50..100
        /\ \A other \in SUBSET Words :
               Matched(other) \subseteq Matched(conf.text)
               => calculate_confidence(other, conf.search_type) <= conf.score

C13_Witness ==
    /\ conf.done
    /\ conf.search_type = "security_advisory"
    /\ conf.score = 100
    /\ calculate_confidence_uncapped(conf.text, conf.search_type) > 100

\* the sign of the first differing component of two versions after the
\* shorter one is padded with zeros
Component(version, i) == IF i <= Len(version) THEN IntOf(version[i]) ELSE 0

FirstDifference(a, b) ==
    LET n == Max(Len(a), Len(b))
        diff == {i \in 1..n : Component(a, i) # Component(b, i)}
    IN  IF diff = {} THEN 0
        ELSE LET i == CHOOSE k \in diff : \A j \in diff : k <= j
             IN  IF Component(a, i) < Component(b, i) THEN -1 ELSE 1

\* C14: on dotted-integer versions _compare_versions is antisymmetric,
\* reflexive, blind to a trailing ".0" and transitive, and its sign is the
\* sign of the first differing component after zero-padding.
C14_CompareIsPreorder ==
    cmp.done =>
        LET a == cmp.version1
            b == cmp.version2
        IN  /\ cmp.result = FirstDifference(a, b)
            /\ cmp.result = 0 - compare_versions(b, a)
            /\ compare_versions(a, a) = 0
            /\ compare_versions(a, Append(a, "0")) = 0
            /\ \A c \in Versions :
                   (cmp.result <= 0 /\ compare_versions(b, c) <= 0)
                   => compare_versions(a, c) <= 0

C14_Witness ==
    /\ cmp.done
    /\ cmp.version1 = <<"1", "10">>
    /\ cmp.version2 = <<"1", "2", "0">>
    /\ cmp.result = 1

\* the claim's reading of one configuration entry
EntryAffects(cpe_match, software_name, version) ==
    /\ NameInCriteria(software_name, cpe_match.criteria)
    /\ \/ /\ cpe_match.versionStartIncluding = NoVersion
          /\ cpe_match.versionEndExcluding = NoVersion
       \/ /\ cpe_match.versionStartIncluding # NoVersion
             => FirstDifference(version, cpe_match.versionStartIncluding) >= 0
          /\ cpe_match.versionEndExcluding # NoVersion
             => FirstDifference(version, cpe_match.versionEndExcluding) < 0

\* C15: _is_version_affected is true exactly when some configuration entry
\* names the software and either gives no bound or gives a range that the
\* version satisfies, for entries with a start only, an end only, and both.
C15_AffectedIffInRange ==
    adv.done =>
        (adv.result <=>
            \E i \in DOMAIN adv.cpe_matches :
                EntryAffects(adv.cpe_matches[i], adv.software_name, adv.version))

\* C16: the locator returns a directory only if at least 2 of bin, etc,
\* usr, var exist in it, and returns "not found" only when no directory of
\* the tree, the given root included, has at least 2 of them.
C16_LocatorFindsRoot ==
    tree.done =>
        /\ tree.result # "none" => Cardinality(tree.present[tree.result]) >= 2
        /\ tree.result = "none" =>
               \A d \in Dirs : Cardinality(tree.present[d]) < 2

\* C17: when the extraction succeeds and the locator finds no filesystem
\* root, the run does not fail: the scanner and the matcher add no rows, the
\* OSINT stage runs, the status ends COMPLETED and, the project having no
\* other rows, the risk level is LOW.
C17_NoRootStillCompletes ==
    \A r \in RunIds :
        (/\ task[r].pc = "done"
         /\ task[r].extraction_result.success
         /\ ~task[r].fs_root
         /\ task[r].raised = "")
        => /\ task[r].ret.kind = "success"
           /\ task[r].stages = {"static", "cve", "osint"}
           /\ task[r].ret.findings_count = 0 /\ task[r].ret.cve_count = 0
           /\ findings[r] = EmptyRows /\ cve_findings[r] = EmptyRows
           /\ Exists =>
                 /\ Status = "completed"
                 /\ (StoredFindings = EmptyRows /\ StoredCves = EmptyRows)
                    => projects[TheProject].risk_level = "low"

C17_Witness ==
    /\ task[1].pc = "done"
    /\ task[1].extraction_result.success /\ ~task[1].fs_root
    /\ task[1].stage_errors = {}
    /\ osint_results[1] = 1
    /\ Exists /\ Status = "completed" /\ projects[TheProject].risk_level = "low"

\* the progress percentage of each status
ProgressTable ==
    [pending |-> 0, uploading |-> 10, extracting |-> 30, analyzing |-> 60,
     osint |-> 80, completed |-> 100, failed |-> 0]

\* C18: every status-update event that is published carries the new status,
\* a non-empty message and the progress percentage of that status; no event
\* is published without a progress value.
C18_EventsCarryProgress ==
    last_publish.calls > 0 =>
        /\ last_publish.message.status \in ProjectStatus
        /\ last_publish.message.message.text # ""
        /\ last_publish.message.progress # NoProgress
        /\ last_publish.message.progress = ProgressTable[last_publish.message.status]

\* the place of a status among the status writes
PositionOf(status) ==
    CHOOSE k \in DOMAIN status_calls : status_calls[k].status = status

C20_ProgressFollowsStatus ==
    /\ [](Exists =>
             /\ reported_progress = ProgressTable[Status]
             /\ (reported_progress = 100) <=> (Status = "completed")
             /\ Status = "failed" => reported_progress = 0)
    /\ [][(Exists /\ TheProject \in DOMAIN projects'
              /\ projects'[TheProject].status # "failed")
          => reported_progress' >= reported_progress]_vars

C20_Witness ==
    /\ Exists /\ Status = "completed"
    /\ reported_progress = 100
    /\ RunStatuses(1, status_calls) = <<"extracting", "analyzing", "osint", "completed">>

\* C21: a run that ends FAILED, by an extraction failure or by an exception
\* at any point, leaves the stored risk level and the completion timestamp
\* as they were before the run.
C21_FailedRunLeavesRisk ==
    \A r \in RunIds :
        (task[r].pc = "done" /\ task[r].ret.kind = "error" /\ Exists)
        => /\ projects[TheProject].completed_at = NewProject.completed_at
           /\ projects[TheProject].risk_level = NewProject.risk_level

\* C22: after a run has ended FAILED, a client that asks for the status of
\* the project obtains status FAILED, progress 0 and the message of the
\* failure: the extractor's error or the exception's message.
C22_FailureMessageSurfaced ==
    (Exists /\ Status = "failed" /\ status_calls # <<>>) =>
        /\ get_analysis_status.status = "failed"
        /\ get_analysis_status.progress = 0
        /\ get_analysis_status.message = Last(status_calls).message
        /\ Last(status_calls).message.detail # ""

\* the runs that have returned success
Succeeded == {r \in RunIds : task[r].pc = "done" /\ task[r].ret.kind = "success"}

RECURSIVE SumCounts(_, _)
SumCounts(runs, field) ==
    IF runs = {} THEN 0
    ELSE LET r == CHOOSE x \in runs : TRUE
         IN  task[r].ret[field] + SumCounts(runs \ {r}, field)

\* C23: nothing keeps a second run of the same project from proceeding:
\* a run that is triggered while another is in flight is neither rejected
\* nor blocked, and every row that the stages of either run produced is
\* stored, once for each run.
C23_RunsNotExcluded ==
    /\ \A r \in RunIds : task[r].pc = "done" => task[r].ret.kind = "success"
    /\ (\A r \in RunIds : task[r].pc \in {"idle", "done"}) =>
          /\ RowCount(StoredFindings) = SumCounts(Succeeded, "findings_count")
          /\ RowCount(StoredCves) = SumCounts(Succeeded, "cve_count")
          /\ \A r \in Succeeded : osint_results[r] = task[r].ret.osint_count

C23_Witness ==
    /\ Succeeded = {1, 2}
    /\ findings[1] # EmptyRows /\ findings[1] = findings[2]
    /\ cve_findings[1] # EmptyRows /\ cve_findings[1] = cve_findings[2]
    /\ osint_results[1] = 1 /\ osint_results[2] = 1
    /\ \E i \in 1..(Len(status_calls) - 1) :
           /\ status_calls[i].status = "osint" /\ status_calls[i].run = 1
           /\ status_calls[i + 1].status = "extracting" /\ status_calls[i + 1].run = 2

\* C24: the results are stored stage by stage: the extraction artifacts are
\* in the store when the status is ANALYZING, and a reader that sees status
\* OSINT sees every Finding and CVEFinding of the run, none of them being
\* still unstored.
C24_RowsStoredByOsint ==
    Exists =>
        /\ Status = "analyzing" => projects[TheProject].extraction_results
        /\ Status = "osint" =>
               \A r \in RunIds :
                   task[r].pc \in {"osint", "risk"} =>
                       /\ task[r].new_findings = EmptyRows
                       /\ task[r].new_cves = EmptyRows

\* C28: a run that ends FAILED, wherever it fails after the extraction,
\* has stored none of its Findings, CVEFindings and OSINTResults, and a run
\* that ends COMPLETED has stored the rows of all three stages.
C28_RowsStoredAtomically ==
    \A r \in RunIds :
        task[r].pc = "done" =>
            /\ task[r].ret.kind = "error" =>
                  /\ findings[r] = EmptyRows
                  /\ cve_findings[r] = EmptyRows
                  /\ osint_results[r] = 0
            /\ (task[r].ret.kind = "success" /\ Exists) =>
                  /\ RowCount(findings[r]) = task[r].ret.findings_count
                  /\ RowCount(cve_findings[r]) = task[r].ret.cve_count
                  /\ osint_results[r] = task[r].ret.osint_count

\* C30: in every state of the store a project whose completion timestamp
\* is set has status COMPLETED: the timestamp is not visible while the
\* status is OSINT, nor on a project that is FAILED.
C30_CompletedAtImpliesCompleted ==
    (Exists /\ projects[TheProject].completed_at) => Status = "completed"

\* C29: ConnectionManager.disconnect never raises: every connection whose
\* endpoint has called disconnect is closed without an error and is absent
\* from the registry, also when a failed delivery had already removed it.
C29_DisconnectNeverRaises ==
    \A w \in WebSockets :
        ws[w].state = "closed" =>
            /\ ~ws[w].error
            /\ \A p \in DOMAIN active_connections :
                   ~Contains(active_connections[p], w)

\* C27: the boost of _search_credential_databases never lowers a score:
\* the boosted score is at least the score _calculate_confidence returned
\* and lies in [0, 100].
C27_BoostNeverLowers ==
    conf.boosted =>
        /\ conf.score >= conf.calculated
        /\ conf.score \in 0..100

\* C26: the candidates are ranked by size, largest first, and the root
\* that the scanner and the matcher analyse is the largest candidate, the
\* extractor's main_filesystem; both analyse the same root.
C26_LargestCandidateAnalysed ==
    workdir.pc = "done" =>
        /\ \A i, j \in 1..Len(workdir.extracted_filesystems) :
               i < j => workdir.size[workdir.extracted_filesystems[i]]
                        >= workdir.size[workdir.extracted_filesystems[j]]
        /\ workdir.static_root = workdir.cve_root
        /\ workdir.main_filesystem # "none" =>
               /\ workdir.static_root = workdir.main_filesystem
               /\ \A d \in Candidates :
                      is_filesystem_dir(workdir.present, d) =>
                          workdir.size[d] <= workdir.size[workdir.static_root]

\* C25: the adapters run in the fixed order device-information,
\* default-credentials, vulnerability, regulatory database, threat-scan
\* engine (only with an access credential), advisories, and a failure
\* raised by one adapter neither keeps the later applicable adapters from
\* running nor discards the results collected before it.
C25_AdaptersIndependent ==
    /\ \A i, j \in 1..Len(correlator.called) :
           i < j => Index(Adapters, correlator.called[i])
                    < Index(Adapters, correlator.called[j])
    /\ Contains(correlator.called, "shodan") => correlator.shodan_api_key
    /\ correlator.returned # "none" =>
           /\ \A i \in 1..Len(Adapters) :
                  Applicable(Adapters[i], correlator.project,
                             correlator.shodan_api_key)
                  => Contains(correlator.called, Adapters[i])
           /\ correlator.out = correlator.results

====
